---- MODULE Spec2Model ----
(***************************************************************************)
(* Transaction manager of coreblocks (src/transactions): the registry of   *)
(* transactions, methods, usages and conflicts, the conflict graph and its *)
(* connected components, the round-robin Scheduler, and the per-cycle      *)
(* wiring of request / ready / grant / run / data_in.                      *)
(*                                                                         *)
(* Signals are bit vectors, modelled as naturals.  A combinational signal  *)
(* that no active statement assigns in a cycle takes its reset value; when *)
(* several active statements assign it, the last one wins.  A synchronous  *)
(* signal takes its assigned value on the next cycle and starts at its     *)
(* reset value.                                                            *)
(***************************************************************************)
EXTENDS Integers, Sequences, FiniteSets, TLC

\* ------------------------------------------------------------------------
\* Universe of objects and bounds
\* ------------------------------------------------------------------------

\* Transaction objects of the design
Trans == {"T0", "T1", "T2"}

\* Method objects of the design
Methods == {"M0", "M1"}

\* Values that the argument of a method call can take in a cycle
ArgVals == {0, 1}

\* The conflicts that are declared: transaction or method at either end
ConflictInputs ==
    {<<"T0", "T1">>, <<"T1", "T2">>, <<"M0", "T2">>, <<"T0", "M1">>, <<"M0", "M1">>}

\* Largest number of successful registrations (usages plus conflicts)
MaxCalls == 3

\* Largest number of slots of a Scheduler examined on its own
MaxCount == 3

\* Number of clock cycles a Scheduler examined on its own is run for
MaxCycles == 6

\* Largest number of vertices of a graph given to _graph_ccs on its own
MaxVertices == 3

\* ------------------------------------------------------------------------
\* Bit vectors
\* ------------------------------------------------------------------------

\* 1 << n
Pow2(n) == 2 ^ n

\* bit i of the value x
Bit(x, i) == (x \div Pow2(i)) % 2

\* x[i] as a condition
IsSet(x, i) == Bit(x, i) = 1

\* the value of `width` bits whose set bits are the positions in S
RECURSIVE BitsOf(_, _)
BitsOf(S, width) ==
    IF width = 0 THEN 0
    ELSE BitsOf(S, width - 1) + (IF (width - 1) \in S THEN Pow2(width - 1) ELSE 0)

\* ------------------------------------------------------------------------
\* Python containers
\* ------------------------------------------------------------------------

\* A dict keeps its keys in insertion order: a sequence of <<key, value>>.
DictKeys(d) == [i \in 1..Len(d) |-> d[i][1]]

DictHas(d, k) == \E i \in 1..Len(d) : d[i][1] = k

DictGet(d, k) == d[CHOOSE i \in 1..Len(d) : d[i][1] = k][2]

\* d[k] = v for a key that is not in d yet
DictNew(d, k, v) == Append(d, <<k, v>>)

\* d[k] = v for a key of d
DictSet(d, k, v) == [i \in 1..Len(d) |-> IF d[i][1] = k THEN <<k, v>> ELSE d[i]]

\* the elements of a sequence
Range(s) == {s[i] : i \in 1..Len(s)}

\* reversed(range(lo, hi))
RECURSIVE ReversedRange(_, _)
ReversedRange(lo, hi) ==
    IF hi <= lo THEN <<>> ELSE <<hi - 1>> \o ReversedRange(lo, hi - 1)

\* the orders in which iterating over the set S can yield its elements
Enumerations(S) ==
    {s \in [1..Cardinality(S) -> S] : \A x \in S : \E i \in 1..Cardinality(S) : s[i] = x}

\* one of them
SetToSeq(S) == CHOOSE s \in Enumerations(S) : TRUE

\* ------------------------------------------------------------------------
\* Scheduler (src/transactions/_utils.py)
\* ------------------------------------------------------------------------

\* reset value of Scheduler.grant, and of grant_reg (Signal.like copies it)
GrantReset(count) == 1 % Pow2(count)

\* the two ranges of the Case of slot i chained the other way round
ScanOrderSwapped(i, count) == ReversedRange(i + 1, count) \o ReversedRange(0, i)

\* the slots tested in the Case of slot i, in program order
ScanOrder(i, count) == ReversedRange(0, i) \o ReversedRange(i + 1, count)

\* the Case that the Switch on grant_reg selects: the first one whose bit is
\* set; count when none matches (the default Case)
RECURSIVE SwitchCase(_, _, _)
SwitchCase(grant_reg, i, count) ==
    IF i >= count THEN count
    ELSE IF IsSet(grant_reg, i) THEN i
    ELSE SwitchCase(grant_reg, i + 1, count)

\* the sequence of "with m.If(requests[j]): grant.eq(1 << j)" statements of
\* one Case: `value` is what grant holds before statement n
RECURSIVE CaseBody(_, _, _, _)
CaseBody(order, n, requests, value) ==
    IF n > Len(order) THEN value
    ELSE CaseBody(order, n + 1, requests,
                  IF IsSet(requests, order[n]) THEN Pow2(order[n]) ELSE value)

\* Scheduler.grant with every "grant.eq(1 << j)" of the selected Case setting
\* its bit and leaving the others as they are
SchedulerGrantOr(count, grant_reg, requests) ==
    LET i == SwitchCase(grant_reg, 0, count)
        others == BitsOf({j \in 0..(count - 1) : j # i /\ IsSet(requests, j)}, count)
    IN  IF i = count THEN 0
        ELSE IF others = 0 THEN GrantReset(count) ELSE others

\* the combinational value of Scheduler.grant
SchedulerGrant(count, grant_reg, requests) ==
    LET i == SwitchCase(grant_reg, 0, count)
    IN  IF i = count THEN 0
        ELSE CaseBody(ScanOrder(i, count), 1, requests, GrantReset(count))

\* the combinational value of Scheduler.valid
SchedulerValid(requests) == requests # 0

\* ------------------------------------------------------------------------
\* State
\* ------------------------------------------------------------------------

VARIABLES
    transactions,   \* TransactionManager.transactions: transaction -> methods used
    methods,        \* TransactionManager.methods: method -> calling transactions
    methodargs,     \* TransactionManager.methodargs: (transaction, method) -> (arg, enable)
    conflicts,      \* TransactionManager.conflicts: list of (end1, end2)
    design,         \* what the last elaborate() wired, <<>> before the first one
    grant_regs,     \* grant_reg of the Scheduler of every component of the design
    current,        \* Transaction.current
    bodies,         \* the transactions whose body is being executed, innermost last
    result,         \* how the last call ended: "ok" or the error it raised
    count,          \* a Scheduler on its own: Scheduler.count
    grant_reg,      \*   its grant_reg
    requests,       \*   its requests input in the present cycle
    cycle,          \*   the number of the present cycle, from 0
    allfull,        \*   every request line was active in every cycle so far
    waited,         \*   per slot: the cycles just before this one, all of them
                    \*   with every request line active, that did not grant it
    pending,        \*   per slot: the cycles just before this one in all of
                    \*   which its request line was active and it was not granted
    graph,          \* _graph_ccs on its own: its argument gr, vertex -> set of vertices
    components      \*   the list ccs it returned, once it has

registry == <<transactions, methods, methodargs, conflicts>>

managerVars == <<transactions, methods, methodargs, conflicts, design, grant_regs>>

contextVars == <<current, bodies>>

schedulerVars == <<count, grant_reg, requests, cycle, allfull, waited, pending>>

graphVars == <<graph, components>>

vars == <<transactions, methods, methodargs, conflicts, design, grant_regs,
          current, bodies, result, count, grant_reg, requests, cycle, allfull, waited,
          pending, graph, components>>

\* Transaction.current when no transaction is open
None == "None"

\* the argument and the enable signal of the call of method m from transaction t
ArgSig(t, m) == <<"arg", t, m>>

EnableSig(t, m) == <<"enable", t, m>>

\* successful use_method and add_conflict calls made so far
Calls == Cardinality(DOMAIN methodargs) + Len(conflicts)

\* ------------------------------------------------------------------------
\* TransactionManager: registration (src/transactions/core.py)
\* ------------------------------------------------------------------------

ManagerInit ==
    /\ transactions = <<>>
    /\ methods = <<>>
    /\ methodargs = <<>>
    /\ conflicts = <<>>

\* the body of use_method without "self.methods[method].append(transaction)"
UseMethodEffectOneSided(transaction, method, arg, enable) ==
    LET ts == IF DictHas(transactions, transaction) THEN transactions
              ELSE DictNew(transactions, transaction, <<>>)
        ms == IF DictHas(methods, method) THEN methods
              ELSE DictNew(methods, method, <<>>)
    IN  /\ transactions' = DictSet(ts, transaction, Append(DictGet(ts, transaction), method))
        /\ methods' = ms
        /\ methodargs' = [p \in DOMAIN methodargs \cup {<<transaction, method>>} |->
                             IF p = <<transaction, method>> THEN <<arg, enable>>
                             ELSE methodargs[p]]
        /\ result' = "ok"

\* the body of use_method after the duplicate check
UseMethodEffect(transaction, method, arg, enable) ==
    LET ts == IF DictHas(transactions, transaction) THEN transactions
              ELSE DictNew(transactions, transaction, <<>>)
        ms == IF DictHas(methods, method) THEN methods
              ELSE DictNew(methods, method, <<>>)
    IN  /\ transactions' = DictSet(ts, transaction, Append(DictGet(ts, transaction), method))
        /\ methods' = DictSet(ms, method, Append(DictGet(ms, method), transaction))
        /\ methodargs' = [p \in DOMAIN methodargs \cup {<<transaction, method>>} |->
                             IF p = <<transaction, method>> THEN <<arg, enable>>
                             ELSE methodargs[p]]
        /\ result' = "ok"

\* use_method without the test for a registered pair
UseMethodUnchecked(transaction, method, arg, enable) ==
    /\ Calls < MaxCalls
    /\ UseMethodEffect(transaction, method, arg, enable)

\* TransactionManager.use_method
UseMethod(transaction, method, arg, enable) ==
    IF <<transaction, method>> \in DOMAIN methodargs
    THEN /\ result' = "RuntimeError: Method can't be called twice from the same transaction"
         /\ UNCHANGED <<transactions, methods, methodargs>>
    ELSE /\ Calls < MaxCalls
         /\ UseMethodEffect(transaction, method, arg, enable)

use_method(transaction, method) ==
    /\ UseMethod(transaction, method, ArgSig(transaction, method),
                 EnableSig(transaction, method))
    /\ UNCHANGED <<conflicts, design, grant_regs>>
    /\ UNCHANGED contextVars
    /\ UNCHANGED schedulerVars
    /\ UNCHANGED graphVars

\* TransactionManager.add_conflict, reached as well through
\* Transaction.add_conflict and Method.add_conflict
add_conflict(end1, end2) ==
    /\ Calls < MaxCalls
    /\ conflicts' = Append(conflicts, <<end1, end2>>)
    /\ result' = "ok"
    /\ UNCHANGED <<transactions, methods, methodargs, design, grant_regs>>
    /\ UNCHANGED contextVars
    /\ UNCHANGED schedulerVars
    /\ UNCHANGED graphVars

\* ------------------------------------------------------------------------
\* Conflict graph and its connected components
\* ------------------------------------------------------------------------

\* A computation that can raise: [ok |-> TRUE, val |-> v] or the KeyError
Ok(v) == [ok |-> TRUE, val |-> v]

KeyError == [ok |-> FALSE, val |-> <<>>]

\* endTrans of _conflict_graph: the transactions an end of a conflict stands for
endTrans(ms, end) ==
    IF end \in Methods
    THEN IF DictHas(ms, end) THEN Ok(DictGet(ms, end)) ELSE KeyError
    ELSE Ok(<<end>>)

\* addEdge that records the edge at one of its ends only
addEdgeOneWay(gr, transaction, transaction2) ==
    IF ~DictHas(gr, transaction) \/ ~DictHas(gr, transaction2) THEN KeyError
    ELSE Ok(DictSet(gr, transaction, DictGet(gr, transaction) \cup {transaction2}))

\* addEdge of _conflict_graph on the graph gr, a dict transaction -> set
addEdge(gr, transaction, transaction2) ==
    IF ~DictHas(gr, transaction) THEN KeyError
    ELSE LET gr1 == DictSet(gr, transaction, DictGet(gr, transaction) \cup {transaction2})
         IN  IF ~DictHas(gr1, transaction2) THEN KeyError
             ELSE Ok(DictSet(gr1, transaction2, DictGet(gr1, transaction2) \cup {transaction}))

\* "for transaction2 in ts2: addEdge(transaction, transaction2)", from the
\* n-th element on; skipSelf is the test "transaction is not transaction2"
RECURSIVE InnerLoop(_, _, _, _, _)
InnerLoop(g, transaction, ts2, n, skipSelf) ==
    IF ~g.ok \/ n > Len(ts2) THEN g
    ELSE InnerLoop(IF skipSelf /\ transaction = ts2[n] THEN g
                   ELSE addEdge(g.val, transaction, ts2[n]),
                   transaction, ts2, n + 1, skipSelf)

\* "for method in methods_of_t: for transaction2 in self.methods[method]"
RECURSIVE MethodLoop(_, _, _, _, _)
MethodLoop(g, ms, transaction, methods_of_t, n) ==
    IF ~g.ok \/ n > Len(methods_of_t) THEN g
    ELSE MethodLoop(InnerLoop(g, transaction, DictGet(ms, methods_of_t[n]), 1, TRUE),
                    ms, transaction, methods_of_t, n + 1)

\* "for transaction, methods in self.transactions.items()"
RECURSIVE UsageLoop(_, _, _, _)
UsageLoop(g, ts, ms, n) ==
    IF ~g.ok \/ n > Len(ts) THEN g
    ELSE UsageLoop(MethodLoop(g, ms, ts[n][1], ts[n][2], 1), ts, ms, n + 1)

\* "for transaction in endTrans(end1): for transaction2 in endTrans(end2)"
RECURSIVE EndLoop(_, _, _, _, _)
EndLoop(g, ms, ts1, end2, n) ==
    IF ~g.ok \/ n > Len(ts1) THEN g
    ELSE LET e2 == endTrans(ms, end2)
         IN  IF ~e2.ok THEN KeyError
             ELSE EndLoop(InnerLoop(g, ts1[n], e2.val, 1, FALSE), ms, ts1, end2, n + 1)

\* "for (end1, end2) in self.conflicts"
RECURSIVE ConflictLoop(_, _, _, _)
ConflictLoop(g, ms, cs, n) ==
    IF ~g.ok \/ n > Len(cs) THEN g
    ELSE LET e1 == endTrans(ms, cs[n][1])
         IN  IF ~e1.ok THEN KeyError
             ELSE ConflictLoop(EndLoop(g, ms, e1.val, cs[n][2], 1), ms, cs, n + 1)

\* TransactionManager._conflict_graph on the registry (ts, ms, cs)
conflict_graph(ts, ms, cs) ==
    LET gr0 == [i \in 1..Len(ts) |-> <<ts[i][1], {}>>]
    IN  ConflictLoop(UsageLoop(Ok(gr0), ts, ms, 1), ms, cs, 1)

\* the while loop of _graph_ccs: q is the stack, r = [visited, cc]
RECURSIVE Traverse(_, _, _)
Traverse(gr, q, r) ==
    IF q = <<>> THEN r
    ELSE LET w == q[Len(q)]
             rest == SubSeq(q, 1, Len(q) - 1)
         IN  IF w \in r.visited THEN Traverse(gr, rest, r)
             ELSE Traverse(gr, rest \o SetToSeq(DictGet(gr, w)),
                           [visited |-> r.visited \cup {w}, cc |-> r.cc \cup {w}])

\* the for loop of _graph_ccs from the n-th key on
RECURSIVE CcsLoop(_, _, _, _)
CcsLoop(gr, n, visited, ccs) ==
    IF n > Len(gr) THEN ccs
    ELSE LET r == Traverse(gr, <<gr[n][1]>>, [visited |-> visited, cc |-> {}])
         IN  CcsLoop(gr, n + 1, r.visited, IF r.cc # {} THEN Append(ccs, r.cc) ELSE ccs)

\* _graph_ccs that never starts a new component
graph_ccsSingle(gr) == IF Len(gr) = 0 THEN <<>> ELSE <<Range(DictKeys(gr))>>

\* _graph_ccs: the list of connected components of gr, each a set
graph_ccs(gr) == CcsLoop(gr, 1, {}, <<>>)

\* ------------------------------------------------------------------------
\* TransactionManager.elaborate: the wiring
\* ------------------------------------------------------------------------

\* nothing elaborated yet
NoDesign ==
    [built |-> FALSE, ccs |-> <<>>, transactions |-> <<>>, methods |-> <<>>,
     methodargs |-> <<>>, conflicts |-> <<>>]

\* "for k, transaction in enumerate(cc)": every component is a set, and the
\* order in which it is iterated gives its transactions their slots
RECURSIVE SlotOrdersFrom(_, _)
SlotOrdersFrom(ccs, n) ==
    IF n > Len(ccs) THEN {<<>>}
    ELSE {<<o>> \o rest : o \in Enumerations(ccs[n]), rest \in SlotOrdersFrom(ccs, n + 1)}

SlotOrders(ccs) == SlotOrdersFrom(ccs, 1)

\* runnable = ready.all() over the methods of a transaction; ready is the set
\* of methods whose ready signal is high
Runnable(d, transaction, ready) ==
    LET ms == DictGet(d.transactions, transaction)
    IN  \A n \in 1..Len(ms) : ms[n] \in ready

\* sched.requests of component c; request is the set of transactions whose
\* request signal is high
SchedRequests(d, c, request, ready) ==
    BitsOf({k \in 0..(Len(d.ccs[c]) - 1) :
               d.ccs[c][k + 1] \in request /\ Runnable(d, d.ccs[c][k + 1], ready)},
           Len(d.ccs[c]))

\* sched.grant of component c
SchedGrant(d, regs, c, request, ready) ==
    SchedulerGrant(Len(d.ccs[c]), regs[c], SchedRequests(d, c, request, ready))

\* the transactions of component c whose grant is high:
\* transaction.grant = sched.grant[k] & sched.valid
ComponentGrants(d, regs, c, request, ready) ==
    LET reqs == SchedRequests(d, c, request, ready)
        g == SchedulerGrant(Len(d.ccs[c]), regs[c], reqs)
    IN  {d.ccs[c][k + 1] : k \in {j \in 0..(Len(d.ccs[c]) - 1) :
                                     IsSet(g, j) /\ SchedulerValid(reqs)}}

\* the transactions whose grant is high; the grant of a transaction that is
\* in no component has no driver and stays at its reset value 0
Grants(d, regs, request, ready) ==
    UNION {ComponentGrants(d, regs, c, request, ready) : c \in 1..Len(d.ccs)}

\* granted[n] = transaction.grant & enable; grants is the set of transactions
\* whose grant is high, enable the set of enable signals that are high
Granted(d, grants, method, n, enable) ==
    LET transaction == DictGet(d.methods, method)[n]
    IN  /\ transaction \in grants
        /\ d.methodargs[<<transaction, method>>][2] \in enable

\* method.run = granted.any(); no driver for a method nobody calls
MethodRun(d, grants, method, enable) ==
    /\ DictHas(d.methods, method)
    /\ \E n \in 1..Len(DictGet(d.methods, method)) : Granted(d, grants, method, n, enable)

\* the statements "with m.If(transaction.grant): method.data_in.eq(tdata)"
\* of the callers from the n-th on; value is what data_in holds before, and
\* argval gives the value of every argument signal in the cycle
RECURSIVE DataInLoop(_, _, _, _, _, _)
DataInLoop(d, grants, method, n, argval, value) ==
    LET callers == DictGet(d.methods, method)
    IN  IF n > Len(callers) THEN value
        ELSE DataInLoop(d, grants, method, n + 1, argval,
                        IF callers[n] \in grants
                        THEN argval[d.methodargs[<<callers[n], method>>][1]]
                        ELSE value)

\* data_in wired to the argument of the first caller, whoever is granted
MethodDataInFirst(d, grants, method, argval) ==
    IF DictHas(d.methods, method)
    THEN argval[d.methodargs[<<DictGet(d.methods, method)[1], method>>][1]]
    ELSE 0

\* method.data_in, 0 (its reset value) when no statement assigns it
MethodDataIn(d, grants, method, argval) ==
    IF DictHas(d.methods, method)
    THEN DataInLoop(d, grants, method, 1, argval, 0)
    ELSE 0

\* TransactionManager.elaborate
elaborate ==
    LET gr == conflict_graph(transactions, methods, conflicts)
    IN  /\ IF gr.ok
           THEN \E order \in SlotOrders(graph_ccs(gr.val)) :
                    /\ design' = [built |-> TRUE, ccs |-> order,
                                  transactions |-> transactions, methods |-> methods,
                                  methodargs |-> methodargs, conflicts |-> conflicts]
                    /\ grant_regs' = [c \in 1..Len(order) |-> GrantReset(Len(order[c]))]
                    /\ result' = "ok"
           ELSE /\ result' = "KeyError"
                /\ UNCHANGED <<design, grant_regs>>
        /\ UNCHANGED <<transactions, methods, methodargs, conflicts>>
        /\ UNCHANGED contextVars
        /\ UNCHANGED schedulerVars
    /\ UNCHANGED graphVars

\* one clock cycle of the elaborated design with the given inputs:
\* "m.d.sync += grant_reg.eq(self.grant)" in every Scheduler
Tick(request, ready) ==
    /\ design.built
    /\ grant_regs' = [c \in 1..Len(design.ccs) |->
                         SchedGrant(design, grant_regs, c, request, ready)]
    /\ UNCHANGED <<transactions, methods, methodargs, conflicts, design, result>>
    /\ UNCHANGED contextVars
    /\ UNCHANGED schedulerVars
    /\ UNCHANGED graphVars

\* the outputs of the present cycle: the transactions granted under the
\* given inputs, and run and data_in of a method given those grants
grant(request, ready) == Grants(design, grant_regs, request, ready)

run(method, grants, enable) == MethodRun(design, grants, method, enable)

data_in(method, grants, argval) == MethodDataIn(design, grants, method, argval)

\* ------------------------------------------------------------------------
\* The manager: registration, elaboration and clock cycles
\* ------------------------------------------------------------------------

\* no transaction body is open
ContextInit ==
    /\ current = None
    /\ bodies = <<>>

SchedulerIdle ==
    /\ count = 0
    /\ grant_reg = 0
    /\ requests = 0
    /\ cycle = 0
    /\ allfull = TRUE
    /\ waited = <<>>
    /\ pending = <<>>

\* _graph_ccs has not returned
NotReturned == [done |-> FALSE, val |-> <<>>]

GraphIdle ==
    /\ graph = <<>>
    /\ components = NotReturned

Init ==
    /\ ManagerInit
    /\ design = NoDesign
    /\ grant_regs = <<>>
    /\ ContextInit
    /\ result = "ok"
    /\ SchedulerIdle
    /\ GraphIdle

Next ==
    \/ \E t \in Trans, m \in Methods : use_method(t, m)
    \/ \E c \in ConflictInputs : add_conflict(c[1], c[2])
    \/ elaborate
    \/ \E request \in SUBSET Trans, ready \in SUBSET Methods : Tick(request, ready)

Spec == Init /\ [][Next]_vars

\* The order of calls that TransactionModule.elaborate produces: the
\* submodules are elaborated inside the transaction context, which makes all
\* the registrations, and only then is the manager added as a submodule and
\* elaborated, once; the clock runs after that.  The designs and scheduler
\* states reached are those of Spec, where elaborate() replaces the design by
\* one wired from the registry as it is at that moment.
ModuleNext ==
    \/ \E t \in Trans, m \in Methods : ~design.built /\ use_method(t, m)
    \/ \E c \in ConflictInputs : ~design.built /\ add_conflict(c[1], c[2])
    \/ ~design.built /\ elaborate
    \/ \E request \in SUBSET Trans, ready \in SUBSET Methods : Tick(request, ready)

ModuleSpec == Init /\ [][ModuleNext]_vars

\* ------------------------------------------------------------------------
\* A Scheduler on its own, driven by arbitrary request vectors
\* ------------------------------------------------------------------------

\* the request vector with every line of a Scheduler active
AllActive(n) == Pow2(n) - 1

\* Scheduler.__init__(count) and the reset of its signals
SchedulerInit ==
    /\ count \in 1..MaxCount
    /\ grant_reg = GrantReset(count)
    /\ requests \in 0..AllActive(count)
    /\ cycle = 0
    /\ allfull = (requests = AllActive(count))
    /\ waited = [k \in 0..(count - 1) |-> 0]
    /\ pending = [k \in 0..(count - 1) |-> 0]

\* Scheduler.grant and Scheduler.valid in the present cycle
scheduler_grant == SchedulerGrant(count, grant_reg, requests)

scheduler_valid == SchedulerValid(requests)

\* slot k is granted in the present cycle
SlotGranted(k) == IsSet(scheduler_grant, k) /\ scheduler_valid

\* the clock edge: grant_reg takes the value of grant, and the environment
\* presents the next request vector
Clock(next_requests) ==
    /\ cycle < MaxCycles
    /\ grant_reg' = scheduler_grant
    /\ requests' = next_requests
    /\ cycle' = cycle + 1
    /\ allfull' = (allfull /\ next_requests = AllActive(count))
    /\ waited' = [k \in 0..(count - 1) |->
                     IF requests = AllActive(count) /\ ~SlotGranted(k)
                     THEN waited[k] + 1 ELSE 0]
    /\ pending' = [k \in 0..(count - 1) |->
                      IF IsSet(requests, k) /\ ~SlotGranted(k)
                      THEN pending[k] + 1 ELSE 0]
    /\ UNCHANGED <<count, result>>
    /\ UNCHANGED managerVars
    /\ UNCHANGED contextVars
    /\ UNCHANGED graphVars

SchedulerSpecInit ==
    /\ SchedulerInit
    /\ ManagerInit
    /\ design = NoDesign
    /\ grant_regs = <<>>
    /\ ContextInit
    /\ result = "ok"
    /\ GraphIdle

SchedulerNext == \E r \in 0..AllActive(count) : Clock(r)

SchedulerSpec == SchedulerSpecInit /\ [][SchedulerNext]_vars

\* ------------------------------------------------------------------------
\* _graph_ccs on its own, given an arbitrary symmetric graph
\* ------------------------------------------------------------------------

\* the symmetric graphs on the vertices 1..n, self-loops included, as dicts
\* with their keys in any order
SymmetricGraphs(n) ==
    LET V == 1..n
        adj == {a \in [V -> SUBSET V] : \A u \in V, v \in V : v \in a[u] <=> u \in a[v]}
    IN  {[i \in 1..n |-> <<order[i], a[order[i]]>>] : order \in Enumerations(V), a \in adj}

GraphInit ==
    /\ graph \in UNION {SymmetricGraphs(n) : n \in 0..MaxVertices}
    /\ components = NotReturned

\* the call _graph_ccs(gr)
graph_ccs_call ==
    /\ ~components.done
    /\ components' = [done |-> TRUE, val |-> graph_ccs(graph)]
    /\ UNCHANGED <<graph, result>>
    /\ UNCHANGED managerVars
    /\ UNCHANGED contextVars
    /\ UNCHANGED schedulerVars

GraphSpecInit ==
    /\ GraphInit
    /\ ManagerInit
    /\ design = NoDesign
    /\ grant_regs = <<>>
    /\ ContextInit
    /\ result = "ok"
    /\ SchedulerIdle

GraphNext == graph_ccs_call

GraphSpec == GraphSpecInit /\ [][GraphNext]_vars

\* ------------------------------------------------------------------------
\* Transaction bodies and method calls made inside them
\* ------------------------------------------------------------------------

\* Transaction.context without the test of Transaction.current
body_enterUnchecked(transaction) ==
    /\ current' = transaction
    /\ bodies' = Append(bodies, transaction)
    /\ result' = "ok"
    /\ UNCHANGED managerVars
    /\ UNCHANGED schedulerVars
    /\ UNCHANGED graphVars

\* entering "with transaction.body(m):", which enters Transaction.context
body_enter(transaction) ==
    /\ IF current # None
       THEN /\ result' = "RuntimeError: Transaction inside transaction"
            /\ UNCHANGED <<current, bodies>>
       ELSE /\ current' = transaction
            /\ bodies' = Append(bodies, transaction)
            /\ result' = "ok"
    /\ UNCHANGED managerVars
    /\ UNCHANGED schedulerVars
    /\ UNCHANGED graphVars

\* leaving the innermost open body, normally or by an exception raised in it:
\* the finally clause of Transaction.context
body_exit(outcome) ==
    /\ bodies # <<>>
    /\ current' = None
    /\ bodies' = SubSeq(bodies, 1, Len(bodies) - 1)
    /\ result' = outcome
    /\ UNCHANGED managerVars
    /\ UNCHANGED schedulerVars
    /\ UNCHANGED graphVars

\* Method.__call__: use_method on behalf of Transaction.get()
method_call(method) ==
    /\ IF current = None
       THEN /\ result' = "RuntimeError: No current transaction"
            /\ UNCHANGED <<transactions, methods, methodargs>>
       ELSE UseMethod(current, method, ArgSig(current, method), EnableSig(current, method))
    /\ UNCHANGED <<conflicts, design, grant_regs>>
    /\ UNCHANGED contextVars
    /\ UNCHANGED schedulerVars
    /\ UNCHANGED graphVars

ContextNext ==
    \/ \E t \in Trans : body_enter(t)
    \/ \E outcome \in {"ok", "Exception"} : body_exit(outcome)
    \/ \E m \in Methods : method_call(m)

ContextSpec == Init /\ [][ContextNext]_vars

\* ------------------------------------------------------------------------
\* Properties of the elaborated design
\* ------------------------------------------------------------------------

\* the input combinations of a cycle
RequestInputs == SUBSET Trans

ReadyInputs == SUBSET Methods

\* the transactions that call method m in the elaborated design
Callers(m) ==
    IF DictHas(design.methods, m) THEN Range(DictGet(design.methods, m)) ELSE {}

\* the methods that transaction t uses in the elaborated design
Uses(t) ==
    IF DictHas(design.transactions, t) THEN Range(DictGet(design.transactions, t)) ELSE {}

\* the transactions an end of a declared conflict stands for
Stands(end) == IF end \in Methods THEN Callers(end) ELSE {end}

\* t1 and t2 call a common method
ShareMethod(t1, t2) == \E m \in Methods : t1 \in Callers(m) /\ t2 \in Callers(m)

\* t1 and t2 are related by a conflict declared before elaboration
DeclaredConflict(t1, t2) ==
    \E n \in 1..Len(design.conflicts) :
        \/ t1 \in Stands(design.conflicts[n][1]) /\ t2 \in Stands(design.conflicts[n][2])
        \/ t2 \in Stands(design.conflicts[n][1]) /\ t1 \in Stands(design.conflicts[n][2])

Conflicting(t1, t2) == t1 # t2 /\ (ShareMethod(t1, t2) \/ DeclaredConflict(t1, t2))

\* the request bit of t is active: it requests and all its methods are ready
Requesting(t, request, ready) == t \in request /\ Uses(t) \subseteq ready

\* the enable signals of the calls of method m
EnableSigs(m) == {EnableSig(t, m) : t \in Callers(m)}

\* C1: mutual exclusion.  In every cycle of an elaborated design, whatever the
\* inputs, two distinct transactions that call a common method or are related
\* by a declared conflict are not both granted.
C1_MutualExclusion ==
    design.built =>
        \A request \in RequestInputs, ready \in ReadyInputs :
            LET g == grant(request, ready)
            IN  \A t1 \in g, t2 \in g : ~Conflicting(t1, t2)

\* C1 witness: two transactions related only by a declared conflict both
\* have their request bit active, and one of them is granted
C1_Witness ==
    /\ design.built
    /\ \E t1 \in Trans, t2 \in Trans :
           /\ t1 # t2 /\ DeclaredConflict(t1, t2) /\ ~ShareMethod(t1, t2)
           /\ \E request \in RequestInputs, ready \in ReadyInputs :
                  /\ Requesting(t1, request, ready)
                  /\ Requesting(t2, request, ready)
                  /\ t1 \in grant(request, ready)

\* C2: readiness gating.  In every cycle, for every state of the schedulers
\* and every combination of inputs, a granted transaction has its request set
\* and every method it uses ready.
C2_ReadinessGating ==
    design.built =>
        \A request \in RequestInputs, ready \in ReadyInputs :
            \A t \in grant(request, ready) : t \in request /\ Uses(t) \subseteq ready

\* C3: a method that is not ready is never run.  In every cycle in which a
\* method is not ready, no transaction that uses it is granted and its run
\* flag is low.
C3_NotReadyNotRun ==
    design.built =>
        \A request \in RequestInputs, ready \in ReadyInputs :
            LET g == grant(request, ready)
            IN  \A m \in Methods \ ready :
                    /\ Callers(m) \cap g = {}
                    /\ \A enable \in SUBSET EnableSigs(m) : ~run(m, g, enable)

\* the sets of transactions that some inputs grant together in the present
\* cycle; run and data_in read the requests and ready flags through them only
GrantOutcomes == {grant(request, ready) : request \in RequestInputs, ready \in ReadyInputs}

\* the callers of m that are granted with their enable condition true
Selected(m, grants, enable) ==
    {t \in Callers(m) : t \in grants /\ EnableSig(t, m) \in enable}

\* C4: single caller routing.  In every cycle a method's run flag is high
\* exactly when one of its callers is granted with its enable condition true;
\* at most one caller is so selected, and when run is high the method's
\* data_in is the argument value of the selected caller.
C4_SingleCallerRouting ==
    design.built =>
        \A g \in GrantOutcomes :
            (   \A m \in Methods :
                    /\ \A enable \in SUBSET EnableSigs(m) :
                           LET sel == Selected(m, g, enable)
                           IN  /\ run(m, g, enable) <=> sel # {}
                               /\ Cardinality(sel) <= 1
                    \* data_in does not read the enables, and a caller is
                    \* selected under some enables exactly when it is granted
                    /\ \A t \in Callers(m) \cap g :
                           \A argval \in [{ArgSig(c, m) : c \in Callers(m)} -> ArgVals] :
                               data_in(m, g, argval) = argval[ArgSig(t, m)]  )

\* C4 witness: a method with two callers, both requesting in every cycle,
\* has run for the first of them and now runs for the second
C4_Witness ==
    /\ design.built
    /\ \E m \in Methods :
           /\ DictHas(design.methods, m)
           /\ Len(DictGet(design.methods, m)) >= 2
           /\ \E c \in 1..Len(design.ccs) :
                  /\ DictGet(design.methods, m)[1] \in Range(design.ccs[c])
                  /\ grant_regs[c] # GrantReset(Len(design.ccs[c]))
           /\ LET g == grant(Callers(m), Methods)
              IN  /\ DictGet(design.methods, m)[2] \in g
                  /\ run(m, g, EnableSigs(m))

\* the transactions connected to t by a chain of at most n conflicts
RECURSIVE Chain(_, _)
Chain(S, n) ==
    IF n = 0 THEN S
    ELSE Chain(S \cup {t2 \in Trans : \E t1 \in S : Conflicting(t1, t2)}, n - 1)

\* the connected component of t in the elaborated design
Component(t) == Chain({t}, Cardinality(Trans))

\* the scheduler state with every Scheduler outside the component `own` reset
OwnRegs(own) ==
    [c \in 1..Len(design.ccs) |->
        IF Range(design.ccs[c]) \subseteq own THEN grant_regs[c]
        ELSE GrantReset(Len(design.ccs[c]))]

\* the transactions of the design that conflict with no other
Alone == {t \in Trans : Uses(t) # {} /\ \A t2 \in Trans : ~Conflicting(t, t2)}

\* C7: partition independence.  Whether a transaction is granted in a cycle
\* depends only on the request bits and the scheduler state of its own
\* connected component: the grant is the same with every request outside the
\* component withdrawn, every method used only outside it not ready and
\* every other scheduler in its reset state.  Transactions that conflict
\* with nobody, each alone in its component, are all granted in every cycle
\* in which they request with all their methods ready.
C7_PartitionIndependence ==
    design.built =>
        /\ \A own \in {Component(t) : t \in Trans} :
               LET ownMethods == UNION {Uses(t) : t \in own}
                   regs == OwnRegs(own)
               IN  \A request \in RequestInputs, ready \in ReadyInputs :
                       grant(request, ready) \cap own =
                           Grants(design, regs, request \cap own, ready \cap ownMethods) \cap own
        /\ LET alone == Alone
           IN  \A request \in RequestInputs, ready \in ReadyInputs :
                   {t \in alone : Requesting(t, request, ready)} \subseteq grant(request, ready)

\* C7 witness: two components, one of two transactions whose scheduler has
\* left its reset state, and one of a single transaction that is granted
\* together with a transaction of the other
C7_Witness ==
    /\ design.built
    /\ \E t1 \in Trans, t2 \in Trans :
           /\ t1 \in Alone
           /\ t2 # t1 /\ Cardinality(Component(t2)) = 2 /\ Uses(t2) # {}
           /\ \E c \in 1..Len(design.ccs) :
                  t2 \in Range(design.ccs[c]) /\ grant_regs[c] # GrantReset(Len(design.ccs[c]))
           /\ \E request \in RequestInputs, ready \in ReadyInputs :
                  {t1, t2} \subseteq grant(request, ready)

\* the number of bits set in the value x of `width` bits
PopCount(x, width) == Cardinality({k \in 0..(width - 1) : IsSet(x, k)})

C15_IndirectCase ==
    /\ design.built
    /\ \E t1 \in Trans, t2 \in Trans :
           /\ t1 # t2 /\ ~Conflicting(t1, t2) /\ t2 \in Component(t1)
           /\ \E request \in RequestInputs, ready \in ReadyInputs :
                  /\ Requesting(t1, request, ready)
                  /\ Requesting(t2, request, ready)
                  /\ t1 \in grant(request, ready)

\* transaction t is an end of a conflict declared before elaboration
ConflictEnd(t) ==
    \E n \in 1..Len(design.conflicts) :
        design.conflicts[n][1] = t \/ design.conflicts[n][2] = t

\* C16: a transaction that uses no methods is vacuously runnable.  In every
\* cycle of an elaborated design a transaction with no usages and no
\* conflicts is granted when its request is set, whatever the ready flags
\* and the other requests.
C16_NoUsageRunnable ==
    design.built =>
        \A request \in RequestInputs, ready \in ReadyInputs :
            \A t \in request :
                (Uses(t) = {} /\ ~ConflictEnd(t)) => t \in grant(request, ready)

\* ------------------------------------------------------------------------
\* Properties of the Scheduler
\* ------------------------------------------------------------------------

\* C5: fairness under full load.  With all the request lines of a Scheduler
\* of count slots active, no slot goes count consecutive cycles without a
\* grant, from whatever state the Scheduler was brought to before: counting
\* the present cycle, every slot has waited fewer than count such cycles.
C5_FullLoadFairness ==
    \A k \in 0..(count - 1) :
        waited[k] + (IF requests = AllActive(count) /\ ~SlotGranted(k) THEN 1 ELSE 0)
            < count

\* C5 witness: in a Scheduler of at least three slots, a slot that has waited
\* count - 1 cycles of full load is granted in the present one
C5_Witness ==
    /\ count >= 3
    /\ requests = AllActive(count)
    /\ \E k \in 0..(count - 1) : waited[k] = count - 1 /\ SlotGranted(k)

\* the slots (P+1) mod N, (P+2) mod N, ..., (P-1) mod N
RotationOrder(P, N) == [n \in 1..(N - 1) |-> (P + n) % N]

Waiting(k) == IsSet(requests, k) /\ ~SlotGranted(k)

\* C11: pointer update.  When a slot is granted in a cycle, the pointer is at
\* that slot in the next cycle; when no slot is granted, no request line
\* being active, the pointer in the next cycle is where it is in this one.
C11_PointerUpdate ==
    [][/\ \A k \in 0..(count - 1) : SlotGranted(k) => grant_reg' = Pow2(k)
       /\ (requests = 0 /\ \A k \in 0..(count - 1) : ~SlotGranted(k))
              => grant_reg' = grant_reg]_vars

\* C12: the grant output has a bit set only when some request line is
\* active.  In every cycle with no active request line the grant output is
\* empty and valid is low, so a bit of grant is set exactly when the slot is
\* granted, that is when the bit and valid are both high.
C12_GrantOnlyOnRequest ==
    /\ requests = 0 => (scheduler_grant = 0 /\ ~scheduler_valid)
    /\ \A k \in 0..(count - 1) : IsSet(scheduler_grant, k) <=> SlotGranted(k)

\* C13: the slot granted last stays a candidate, with the lowest priority.
\* In every cycle in which some request line is active, exactly one slot is
\* granted and its request line is active; when the only active request line
\* is that of the slot the pointer is at, that slot is granted.
C13_PointerSlotCandidate ==
    /\ requests # 0 =>
           \E k \in 0..(count - 1) :
               /\ SlotGranted(k)
               /\ IsSet(requests, k)
               /\ \A j \in 0..(count - 1) : SlotGranted(j) => j = k
    /\ \A P \in 0..(count - 1) :
           (grant_reg = Pow2(P) /\ requests = Pow2(P)) => SlotGranted(P)

\* C14: bounded wait.  A request line of a Scheduler of count slots that is
\* active in every cycle is granted after at most count - 1 cycles in which
\* it is not, whatever the other lines request and wherever the pointer is:
\* counting the present cycle, no slot has been kept waiting count cycles.
\* In every cycle a slot waits, another slot with an active request line is
\* granted.
C14_BoundedWait ==
    \A k \in 0..(count - 1) :
        /\ pending[k] + (IF Waiting(k) THEN 1 ELSE 0) <= count - 1
        /\ Waiting(k) =>
               \E j \in 0..(count - 1) : j # k /\ IsSet(requests, j) /\ SlotGranted(j)

\* the first half of C14 on its own: the bound on the number of cycles
C14_WaitBound ==
    \A k \in 0..(count - 1) :
        pending[k] + (IF Waiting(k) THEN 1 ELSE 0) <= count - 1

\* ------------------------------------------------------------------------
\* Properties of registration
\* ------------------------------------------------------------------------

DuplicateUsage == "RuntimeError: Method can't be called twice from the same transaction"

\* C8: a duplicate usage is rejected without effect.  A use_method call for a
\* (transaction, method) pair that is registered already raises, and leaves
\* transactions, methods, methodargs and conflicts as they were.
C8_DuplicateUsageRejected ==
    [][\A t \in Trans, m \in Methods :
           (<<t, m>> \in DOMAIN methodargs /\ use_method(t, m))
           => (result' = DuplicateUsage /\ UNCHANGED registry)]_vars

\* C8 witness: a call has been rejected as a duplicate, with two usages and
\* a conflict registered
C8_Witness ==
    /\ result = DuplicateUsage
    /\ Cardinality(DOMAIN methodargs) >= 2
    /\ conflicts # <<>>

\* C9: registration is closed by build.  Once elaborate() has completed,
\* every later use_method call and every later elaborate() call raises and
\* leaves the registry, the components and the schedulers unchanged.
C9_ClosedAfterBuild ==
    [][(design.built /\ ((\E t \in Trans, m \in Methods : use_method(t, m)) \/ elaborate))
       => (result' \notin {"ok"} /\ UNCHANGED <<registry, design, grant_regs>>)]_vars

\* the transactions registered as callers of method m
RegCallers(m) == IF DictHas(methods, m) THEN Range(DictGet(methods, m)) ELSE {}

\* the transactions an end of a conflict resolves to: a transaction to itself,
\* a method to all of its callers
Resolves(end) == IF end \in Methods THEN RegCallers(end) ELSE {end}

\* t1 and t2 are registered as callers of a common method
CommonMethod(t1, t2) == \E m \in Methods : t1 \in RegCallers(m) /\ t2 \in RegCallers(m)

\* some registered conflict pair resolves to sets with one of t1, t2 on each side
ResolvedConflict(t1, t2) ==
    \E n \in 1..Len(conflicts) :
        \/ t1 \in Resolves(conflicts[n][1]) /\ t2 \in Resolves(conflicts[n][2])
        \/ t2 \in Resolves(conflicts[n][1]) /\ t1 \in Resolves(conflicts[n][2])

\* the graph that _conflict_graph builds from the present registry
RegistryGraph == conflict_graph(transactions, methods, conflicts)

C19_BuildTotal ==
    [][elaborate => (RegistryGraph.ok /\ result' = "ok" /\ design'.built)]_vars

\* the list s has no element twice
NoDuplicate(s) == \A i \in 1..Len(s), j \in 1..Len(s) : s[i] = s[j] => i = j

\* the methods registered as used by transaction t, as a list
MethodsOf(t) == IF DictHas(transactions, t) THEN DictGet(transactions, t) ELSE <<>>

\* the transactions registered as callers of method m, as a list
CallersOf(m) == IF DictHas(methods, m) THEN DictGet(methods, m) ELSE <<>>

\* C20: registry consistency.  After any sequence of use_method calls,
\* successful or failing, method m is in the list of methods used by
\* transaction t if and only if t is in the list of callers of m, if and only
\* if the pair (t, m) has an (argument, enable) entry; neither list contains
\* a duplicate.
C20_RegistryConsistency ==
    /\ \A t \in Trans, m \in Methods :
           /\ m \in Range(MethodsOf(t)) <=> t \in Range(CallersOf(m))
           /\ t \in Range(CallersOf(m)) <=> <<t, m>> \in DOMAIN methodargs
    /\ \A t \in Trans : NoDuplicate(MethodsOf(t))
    /\ \A m \in Methods : NoDuplicate(CallersOf(m))

\* C20 witness: a use_method call has just failed on a registry in which a
\* transaction uses two methods and a method has two callers
C20_Witness ==
    /\ result = DuplicateUsage
    /\ \E t \in Trans : Len(MethodsOf(t)) = 2
    /\ \E m \in Methods : Len(CallersOf(m)) = 2

\* ------------------------------------------------------------------------
\* Properties of _graph_ccs
\* ------------------------------------------------------------------------

\* the vertices of the graph given to _graph_ccs
Vertices == Range(DictKeys(graph))

\* the vertices that a path of at most n edges connects to one of S
RECURSIVE Reach(_, _)
Reach(S, n) ==
    IF n = 0 THEN S
    ELSE Reach(S \cup UNION {DictGet(graph, v) : v \in S}, n - 1)

\* a path of edges connects u and v
Connected(u, v) == v \in Reach({u}, Cardinality(Vertices))

\* C18: partitioning.  For every symmetric graph, the components that
\* _graph_ccs returns are non-empty, pairwise disjoint and cover every
\* vertex; two vertices are in the same component exactly when a path of
\* edges connects them; a vertex with no edges is a component of its own.
C18_Partitioning ==
    components.done =>
        LET cs == components.val
        IN  /\ \A i \in 1..Len(cs) : cs[i] # {}
            /\ \A i \in 1..Len(cs), j \in 1..Len(cs) : i # j => cs[i] \cap cs[j] = {}
            /\ UNION Range(cs) = Vertices
            /\ \A u \in Vertices, v \in Vertices :
                   (\E i \in 1..Len(cs) : u \in cs[i] /\ v \in cs[i]) <=> Connected(u, v)
            /\ \A v \in Vertices : DictGet(graph, v) = {} => {v} \in Range(cs)

\* C18 witness: _graph_ccs has returned two components for a graph of three
\* vertices: a vertex with no edges, and two vertices joined by an edge, the
\* isolated vertex being met between the other two in the order of the keys
C18_Witness ==
    /\ components.done
    /\ Len(graph) = 3
    /\ DictGet(graph, graph[2][1]) = {}
    /\ graph[3][1] \in DictGet(graph, graph[1][1])
    /\ components.val = <<{graph[1][1], graph[3][1]}, {graph[2][1]}>>

\* ------------------------------------------------------------------------
\* Properties of transaction bodies
\* ------------------------------------------------------------------------

NestedTransaction == "RuntimeError: Transaction inside transaction"

\* C10: at most one transaction is open at any time.  At most one body is
\* being executed, and it is the body of Transaction.current; opening a body
\* while one is open raises and leaves the open one in place; leaving a body,
\* normally or by an exception, leaves no transaction open; and with no
\* transaction open, opening one succeeds.
C10_OneOpenTransaction ==
    /\ [](/\ Len(bodies) <= 1
          /\ current = None <=> bodies = <<>>
          /\ bodies # <<>> => current = bodies[Len(bodies)])
    /\ [][/\ \A t \in Trans :
                 body_enter(t) =>
                     IF current # None
                     THEN result' = NestedTransaction /\ UNCHANGED <<current, bodies>>
                     ELSE result' = "ok" /\ current' = t
          /\ \A outcome \in {"ok", "Exception"} :
                 body_exit(outcome) => current' = None /\ bodies' = <<>>]_vars

\* C10 witness: opening a second body has just been refused while a body is
\* open in which a method was called
C10_Witness ==
    /\ result = NestedTransaction
    /\ current # None
    /\ \E m \in Methods : <<current, m>> \in DOMAIN methodargs

====
